---- MODULE Spec2Model ----
(***************************************************************************)
(* State-machine model of src/bconsWS.js (class BconsWS): the connection   *)
(* manager, the WebSocket handles it creates, and the timers it schedules. *)
(* Every handler of the class is one atomic action (one event-loop task).  *)
(***************************************************************************)
EXTENDS Integers, Sequences, FiniteSets, TLC

\* ------------------------------------------------------------------ bounds
\* Cap on reconnectCount (dirty closes are refused by the model beyond it).
MaxRetry == 22
\* Cap on the error payloads waiting for their 3000 ms timer.
MaxErrTimers == 1
\* Cap on the frames transmitted on one handle.
MaxSent == 2

\* --------------------------------------------------------------- constants
\* null, for this.ws and this.reconnectTimerId (handles and timer ids are >= 1).
NULL == 0
\* WebSocket.readyState values.
CONNECTING == 0
OPEN == 1
CLOSING == 2
CLOSED == 3

\* Default endpoint of the class, and an address a 302 close may carry.
DefaultServer == "wss://bcons.dev/fry"
Failover == "wss://failover"
\* A string the WebSocket constructor rejects with a SyntaxError.
BadUrl == "wss://x#fragment"

\* Values the constructor options may carry.
Tokens == {"", "tok"}
Servers == {"", DefaultServer, BadUrl}
\* e.reason of a close event.
Reasons == {"", Failover, BadUrl}
\* e.code of a clean close event, and of a dirty one.
CleanCodes == {302, 400, 401, 499, 500, 1000}
DirtyCode == 1006
\* Arguments of send(): a string, or an object to be serialized.
Messages == {[kind |-> "string", e |-> "ping"], [kind |-> "object", e |-> "ping"]}
\* msg.data of a message event: one that parses, one that does not.
Inbound == {"{\"e\":\"chat\"}", "not json"}

VARIABLES
  userToken,         \* this.userToken
  wsServer,          \* this.wsServer (the primary server)
  device,            \* this.device
  onMessage,         \* TRUE iff a sink (this.onMessage) is registered
  ws,                \* this.ws: NULL or the id of the current handle
  sockets,           \* the WebSocket objects that are referenced or not yet closed
  reconnectCount,    \* this.reconnectCount
  reconnectTimerId,  \* this.reconnectTimerId
  currentWsServer,   \* this.currentWsServer
  timers,            \* ids of the pending setTimeout(() => this.connect(), retry)
  errTimers,         \* payloads of the pending setTimeout(() => this.onMessage(content), 3000)
  last,              \* the handler that ran last and what it did
  dirtySinceOpen,    \* history: dirty closes handled since the last open event
  runDelay,          \* history: delay of the previous dirty close of the current run
  idleSince,         \* history: kind of the last clean close not yet followed by a caller connect()
  awaitingReconnect, \* history: a dirty close was handled and no transport created since
  survivedDisconnect \* history: disconnect() was called while the pending reconnect timer was pending

vars == <<userToken, wsServer, device, onMessage, ws, sockets, reconnectCount,
          reconnectTimerId, currentWsServer, timers, errTimers, last,
          dirtySinceOpen, runDelay, idleSince, awaitingReconnect,
          survivedDisconnect>>

history == <<dirtySinceOpen, runDelay, idleSince, awaitingReconnect,
             survivedDisconnect>>

config == <<userToken, wsServer, device, onMessage>>

\* ----------------------------------------------------------------- helpers
\* The smallest id >= 1 outside a finite set of ids: a fresh object or timer id.
\* (Real ids are never reused; only equality with the ids still held matters.)
FreshId(used) == CHOOSE i \in 1..(Cardinality(used) + 1) : i \notin used

\* A WebSocket object just constructed for url.
NewSocket(url) ==
  [url |-> url, readyState |-> CONNECTING, established |-> FALSE, sent |-> <<>>]

\* Objects still reachable: the one this.ws references and those not yet closed
\* (their handlers can still run). Closed unreferenced objects are collected.
Collect(socks, w) ==
  [h \in {x \in DOMAIN socks : x = w \/ socks[x].readyState # CLOSED} |-> socks[h]]

\* The handles in the connecting, open or closing phase.
Live == {h \in DOMAIN sockets : sockets[h].readyState # CLOSED}

\* What a handler did; every handler starts from this record.
Effect(op) ==
  [op |-> op, h |-> NULL, log |-> "", created |-> FALSE, scheduled |-> FALSE,
   cancelled |-> FALSE, retry |-> 0, errQueued |-> FALSE, sunk |-> <<>>,
   frames |-> 0, threw |-> FALSE, clean |-> FALSE, code |-> 0, reason |-> "",
   before |-> 0, data |-> "", afterDisconnect |-> FALSE]

\* JSON.stringify of an object message.
stringify(m) == "{\"e\":\"" \o m.e \o "\"}"

\* The string send() hands to the transport.
wire(m) == IF m.kind = "string" THEN m.e ELSE stringify(m)

\* An authentication frame that leaves the device out.
authFrameNoDevice(token, dev) ==
  "{\"e\": \"auth\", \"userToken\":\"" \o token \o "\"}"

\* The authentication frame of onopen.
authFrame(token, dev) ==
  "{\"e\": \"auth\", \"userToken\":\"" \o token \o "\", \"device\":\"" \o dev \o "\"}"

\* JSON.parse of msg.data: whether it parses, and the parsed value.
parse(data) ==
  IF data = "{\"e\":\"chat\"}" THEN [ok |-> TRUE, value |-> [e |-> "chat"]]
  ELSE [ok |-> FALSE, value |-> [e |-> ""]]

\* ws.send(frame) on object w: transmitted when w is open, discarded when it
\* is closing or closed. (On a connecting object it throws; see threwOnSend.)
transmit(socks, w, frame) ==
  IF socks[w].readyState = OPEN
    THEN [socks EXCEPT ![w].sent = Append(@, frame)]
    ELSE socks

\* Whether ws.send() on object w throws InvalidStateError.
threwOnSend(socks, w) == socks[w].readyState = CONNECTING

\* Whether new WebSocket(url) accepts url (otherwise it throws a SyntaxError).
isUrl(url) == url \in {DefaultServer, Failover}

\* ------------------------------------------------------------ connect()
\* What connect() returns to the model when it constructs nothing.
Refused(w, socks, log) ==
  [ws |-> w, sockets |-> socks, log |-> log, created |-> FALSE, threw |-> FALSE]

\* connect() without the readyState guard of line 72.
connectNoGuard(cur, w, socks) ==
  IF userToken = "" THEN Refused(w, socks, "token")
  ELSE IF cur = "" THEN Refused(w, socks, "server")
  ELSE IF ~isUrl(cur)
    THEN [ws |-> w, sockets |-> socks, log |-> "creation", created |-> FALSE,
          threw |-> TRUE]
  ELSE LET h == FreshId(DOMAIN socks)
       IN [ws |-> h,
           sockets |-> Collect((h :> NewSocket(cur)) @@ socks, h),
           log |-> "creation", created |-> TRUE, threw |-> FALSE]

\* connect() with the server check made before the token check.
connectServerFirst(cur, w, socks) ==
  IF cur = "" THEN Refused(w, socks, "server")
  ELSE IF userToken = "" THEN Refused(w, socks, "token")
  ELSE IF w # NULL /\ socks[w].readyState # CLOSED THEN Refused(w, socks, "busy")
  ELSE IF ~isUrl(cur)
    THEN [ws |-> w, sockets |-> socks, log |-> "creation", created |-> FALSE,
          threw |-> TRUE]
  ELSE LET h == FreshId(DOMAIN socks)
       IN [ws |-> h,
           sockets |-> Collect((h :> NewSocket(cur)) @@ socks, h),
           log |-> "creation", created |-> TRUE, threw |-> FALSE]

\* connect() run with this.currentWsServer = cur, this.ws = w and the objects
\* socks: the new this.ws, the objects, the last branch logged, whether a
\* WebSocket was constructed and whether the constructor threw.
connect(cur, w, socks) ==
  IF userToken = "" THEN Refused(w, socks, "token")
  ELSE IF cur = "" THEN Refused(w, socks, "server")
  ELSE IF w # NULL /\ socks[w].readyState # CLOSED THEN Refused(w, socks, "busy")
  ELSE IF ~isUrl(cur)
    THEN [ws |-> w, sockets |-> socks, log |-> "creation", created |-> FALSE,
          threw |-> TRUE]
  ELSE LET h == FreshId(DOMAIN socks)
       IN [ws |-> h,
           sockets |-> Collect((h :> NewSocket(cur)) @@ socks, h),
           log |-> "creation", created |-> TRUE, threw |-> FALSE]

\* ------------------------------------------------------ onclose, dirty branch
\* The delay with the thresholds compared by >= instead of >.
retryDelayOffByOne(count, cur) ==
  LET step == IF count >= 20 THEN 10000
              ELSE IF count >= 10 THEN 7000
              ELSE IF count >= 5 THEN 5000
              ELSE 1000
  IN IF count > 5 /\ cur # wsServer THEN 1000 ELSE step

\* The delay of the reconnect timer, from the incremented count and the
\* current server.
retryDelay(count, cur) ==
  LET step == IF count > 20 THEN 10000
              ELSE IF count > 10 THEN 7000
              ELSE IF count > 5 THEN 5000
              ELSE 1000
  IN IF count > 5 /\ cur # wsServer THEN 1000 ELSE step

\* The dirty branch never switching back to the primary server.
nextServerKeep(count, cur) == cur

\* this.currentWsServer after the dirty branch.
nextServer(count, cur) ==
  IF count > 5 /\ cur # wsServer THEN wsServer ELSE cur

\* The dirty branch without its clearTimeout.
clearTimeoutNone(pending, id) == pending

\* The pending timers after "if (this.reconnectTimerId) clearTimeout(...)".
clearTimeout(pending, id) ==
  IF id # NULL THEN pending \ {id} ELSE pending

\* The dirty branch giving up after 20 retries.
setTimeoutGiveUp(pending, id, count) ==
  IF count > 20 THEN pending ELSE pending \cup {id}

\* The pending timers after setTimeout(() => this.connect(), retry) returned
\* id: the dirty branch schedules at every count.
setTimeout(pending, id, count) == pending \cup {id}

\* this.reconnectCount after ++this.reconnectCount.
increment(count) == count + 1

\* onopen without its reset of the counter.
resetCountKeep(count) == count

\* this.reconnectCount after onopen.
resetCount(count) == 0

\* The 302 branch reconnecting without adopting e.reason.
redirectTargetKeep(reason, cur) == cur

\* this.currentWsServer after the 302 branch.
redirectTarget(reason, cur) == reason

\* Whether a clean close code is an authentication-class rejection.
isAuthError(code) == code > 400 /\ code < 500

\* onmessage handing every parse result to the sink, failed ones included.
sinkCallsAlways(p) == IF onMessage THEN <<p.value>> ELSE <<>>

\* The sink invocations of onmessage for the parse result p: one with the
\* parsed value when it parsed and a sink is registered, none otherwise (the
\* SyntaxError of JSON.parse is caught and logged).
sinkCalls(p) == IF p.ok /\ onMessage THEN <<p.value>> ELSE <<>>

\* Whether send() transmits with the handle in this readyState.
canSend(readyState) == readyState = OPEN

\* ------------------------------------------------------------------- Init
\* The state after the constructor: options copied, no handle, no timer.
Init ==
  /\ userToken \in Tokens
  /\ wsServer \in Servers
  /\ device = "custom"
  /\ onMessage \in BOOLEAN
  /\ ws = NULL
  /\ sockets = <<>>
  /\ reconnectCount = 0
  /\ reconnectTimerId = NULL
  /\ currentWsServer = wsServer
  /\ timers = {}
  /\ errTimers = <<>>
  /\ last = Effect("init")
  /\ dirtySinceOpen = 0
  /\ runDelay = 0
  /\ idleSince = "none"
  /\ awaitingReconnect = FALSE
  /\ survivedDisconnect = FALSE

\* ------------------------------------------------------- caller operations
\* The caller calls connect().
Connect ==
  LET r == connect(currentWsServer, ws, sockets)
  IN /\ ws' = r.ws
     /\ sockets' = r.sockets
     /\ last' = [Effect("connect") EXCEPT !.log = r.log, !.created = r.created,
                                          !.threw = r.threw]
     /\ idleSince' = "none"
     /\ awaitingReconnect' = (awaitingReconnect /\ ~r.created)
     /\ UNCHANGED <<config, reconnectCount, reconnectTimerId, currentWsServer,
                    timers, errTimers, dirtySinceOpen, runDelay,
                    survivedDisconnect>>

\* The caller calls send(message). With this.ws null the read of
\* this.ws.readyState throws a TypeError to the caller.
Send(m) ==
  /\ IF ws = NULL
       THEN /\ last' = [Effect("send") EXCEPT !.threw = TRUE]
            /\ UNCHANGED sockets
     ELSE IF ~canSend(sockets[ws].readyState)
       THEN /\ last' = Effect("send")
            /\ UNCHANGED sockets
     ELSE /\ Len(sockets[ws].sent) < MaxSent
          /\ sockets' = transmit(sockets, ws, wire(m))
          /\ last' = [Effect("send") EXCEPT !.frames = 1, !.h = ws]
  /\ UNCHANGED <<config, ws, reconnectCount, reconnectTimerId, currentWsServer,
                 timers, errTimers, history>>

\* disconnect() cancelling the pending reconnect timer as well.
DisconnectCancels ==
  /\ IF ws # NULL /\ sockets[ws].readyState \in {CONNECTING, OPEN}
       THEN sockets' = [sockets EXCEPT ![ws].readyState = CLOSING]
       ELSE UNCHANGED sockets
  /\ last' = [Effect("disconnect") EXCEPT !.h = ws]
  /\ timers' = {}
  /\ survivedDisconnect' = FALSE
  /\ UNCHANGED <<config, ws, reconnectCount, reconnectTimerId, currentWsServer,
                 errTimers, dirtySinceOpen, runDelay, idleSince,
                 awaitingReconnect>>

\* The caller calls disconnect(): ws.close() moves a connecting or open
\* handle to closing and does nothing to a closing or closed one.
Disconnect ==
  /\ IF ws # NULL /\ sockets[ws].readyState \in {CONNECTING, OPEN}
       THEN sockets' = [sockets EXCEPT ![ws].readyState = CLOSING]
       ELSE UNCHANGED sockets
  /\ last' = [Effect("disconnect") EXCEPT !.h = ws]
  /\ survivedDisconnect' = (timers # {})
  /\ UNCHANGED <<config, ws, reconnectCount, reconnectTimerId, currentWsServer,
                 timers, errTimers, dirtySinceOpen, runDelay, idleSince,
                 awaitingReconnect>>

\* ------------------------------------------------------- transport events
\* The open event of handle h: the connection is established.
OnOpen(h) ==
  /\ h \in DOMAIN sockets
  /\ sockets[h].readyState = CONNECTING
  /\ reconnectCount' = resetCount(reconnectCount)
  /\ LET opened == [sockets EXCEPT ![h].readyState = OPEN, ![h].established = TRUE]
     IN /\ sockets' = transmit(opened, ws, authFrame(userToken, device))
        /\ last' = [Effect("open") EXCEPT
                      !.h = h,
                      !.before = reconnectCount,
                      !.frames = IF opened[ws].readyState = OPEN THEN 1 ELSE 0,
                      !.threw = threwOnSend(opened, ws)]
  /\ dirtySinceOpen' = 0
  /\ runDelay' = 0
  /\ UNCHANGED <<config, ws, reconnectTimerId, currentWsServer, timers,
                 errTimers, idleSince, awaitingReconnect, survivedDisconnect>>

\* The close event of handle h: readyState becomes CLOSED and onclose runs in
\* the same task. A clean close needs an established connection. (The reason
\* that is no URL is enumerated only where the reason is dialed, with 302, and
\* a non-empty reason elsewhere only with 401, where it is the payload.)
OnClose(h, wasClean, code, reason) ==
  /\ h \in DOMAIN sockets
  /\ sockets[h].readyState # CLOSED
  /\ wasClean => sockets[h].established /\ code \in CleanCodes
  /\ reason = BadUrl => code = 302
  /\ reason = Failover => code \in {302, 401}
  /\ ~wasClean => code = DirtyCode /\ reason = "" /\ reconnectCount < MaxRetry
  /\ LET closed == [sockets EXCEPT ![h].readyState = CLOSED]
         ev == [Effect("close") EXCEPT !.h = h, !.clean = wasClean,
                                       !.code = code, !.reason = reason]
     IN IF wasClean
        THEN \* clean branch
          LET cur == IF code = 302 THEN redirectTarget(reason, currentWsServer)
                     ELSE currentWsServer
              r == IF code = 302 THEN connect(cur, ws, closed)
                   ELSE Refused(ws, closed, "")
              \* an exception thrown by connect() ends the handler
              queue == isAuthError(code) /\ onMessage /\ ~r.threw
          IN /\ queue => Len(errTimers) < MaxErrTimers
             /\ currentWsServer' = cur
             /\ ws' = r.ws
             /\ sockets' = Collect(r.sockets, r.ws)
             /\ errTimers' = IF queue
                               THEN Append(errTimers, [errorCode |-> code, reason |-> reason])
                               ELSE errTimers
             /\ last' = [ev EXCEPT !.log = r.log, !.created = r.created,
                                   !.threw = r.threw, !.errQueued = queue]
             /\ idleSince' = IF code = 302 THEN "none"
                              ELSE IF isAuthError(code) THEN "auth" ELSE "other"
             /\ runDelay' = IF code = 302 THEN 0 ELSE runDelay
             /\ awaitingReconnect' = (awaitingReconnect /\ ~r.created)
             /\ UNCHANGED <<reconnectCount, reconnectTimerId, timers, dirtySinceOpen,
                            survivedDisconnect>>
        ELSE \* dirty branch
          LET count == increment(reconnectCount)
              retry == retryDelay(count, currentWsServer)
              kept == clearTimeout(timers, reconnectTimerId)
              id == FreshId(timers \cup {reconnectTimerId})
          IN /\ reconnectCount' = count
             /\ currentWsServer' = nextServer(count, currentWsServer)
             /\ timers' = setTimeout(kept, id, count)
             /\ reconnectTimerId' = id
             /\ sockets' = Collect(closed, ws)
             /\ last' = [ev EXCEPT !.scheduled = TRUE, !.retry = retry,
                                   !.cancelled = (kept # timers)]
             /\ dirtySinceOpen' = dirtySinceOpen + 1
             /\ runDelay' = retry
             /\ idleSince' = "none"
             /\ awaitingReconnect' = TRUE
             /\ survivedDisconnect' = FALSE
             /\ UNCHANGED <<ws, errTimers>>
  /\ UNCHANGED config

\* onerror starting the recovery itself instead of leaving it to onclose.
OnErrorReconnects(h) ==
  /\ h \in DOMAIN sockets
  /\ sockets[h].readyState # CLOSED
  /\ reconnectCount < MaxRetry
  /\ reconnectCount' = increment(reconnectCount)
  /\ last' = [Effect("error") EXCEPT !.h = h, !.log = "error"]
  /\ UNCHANGED <<config, ws, sockets, reconnectTimerId, currentWsServer, timers,
                 errTimers, history>>

\* The error event of handle h: logged only.
OnError(h) ==
  /\ h \in DOMAIN sockets
  /\ sockets[h].readyState # CLOSED
  /\ last' = [Effect("error") EXCEPT !.h = h, !.log = "error"]
  /\ UNCHANGED <<config, ws, sockets, reconnectCount, reconnectTimerId,
                 currentWsServer, timers, errTimers, history>>

\* The message event of handle h with msg.data = data.
OnMessage(h, data) ==
  /\ h \in DOMAIN sockets
  /\ sockets[h].readyState = OPEN
  /\ LET p == parse(data)
     IN last' = [Effect("message") EXCEPT
                   !.h = h,
                   !.data = data,
                   !.log = IF p.ok THEN "" ELSE "error",
                   !.sunk = sinkCalls(p)]
  /\ UNCHANGED <<config, ws, sockets, reconnectCount, reconnectTimerId,
                 currentWsServer, timers, errTimers, history>>

\* ------------------------------------------------------------------ timers
\* A pending reconnect timer fires: () => this.connect().
ReconnectTimer(id) ==
  /\ id \in timers
  /\ timers' = timers \ {id}
  /\ LET r == connect(currentWsServer, ws, sockets)
     IN /\ ws' = r.ws
        /\ sockets' = r.sockets
        /\ last' = [Effect("timer") EXCEPT !.log = r.log, !.created = r.created,
                                           !.threw = r.threw,
                                           !.afterDisconnect = survivedDisconnect]
        /\ awaitingReconnect' = (awaitingReconnect /\ ~r.created)
  /\ survivedDisconnect' = FALSE
  /\ UNCHANGED <<config, reconnectCount, reconnectTimerId, currentWsServer,
                 errTimers, dirtySinceOpen, runDelay, idleSince>>

\* The oldest pending 3000 ms timer fires: () => this.onMessage(content).
ErrorTimer ==
  /\ errTimers # <<>>
  /\ errTimers' = Tail(errTimers)
  /\ last' = [Effect("deliver") EXCEPT !.sunk = <<Head(errTimers)>>]
  /\ UNCHANGED <<config, ws, sockets, reconnectCount, reconnectTimerId,
                 currentWsServer, timers, history>>

\* -------------------------------------------------------------- specification
Next ==
  \/ Connect
  \/ \E m \in Messages : Send(m)
  \/ Disconnect
  \/ \E h \in DOMAIN sockets : OnOpen(h)
  \/ \E h \in DOMAIN sockets, wasClean \in BOOLEAN,
        code \in CleanCodes \cup {DirtyCode}, reason \in Reasons :
        OnClose(h, wasClean, code, reason)
  \/ \E h \in DOMAIN sockets : OnError(h)
  \/ \E h \in DOMAIN sockets, data \in Inbound : OnMessage(h, data)
  \/ \E id \in timers : ReconnectTimer(id)
  \/ ErrorTimer

Spec == Init /\ [][Next]_vars

\* The event loop runs every timer that stays pending: a reconnect timer that
\* is not cancelled fires, and so does the 3000 ms timer of an error payload.
FairSpec ==
  /\ Spec
  /\ WF_vars(\E id \in timers : ReconnectTimer(id))
  /\ WF_vars(ErrorTimer)

\* ===================================================================== claims
\* Whether this.ws references a handle that is connecting, open or closing.
Busy == ws # NULL /\ sockets[ws].readyState # CLOSED

\* The step is a dirty close handled by onclose.
DirtyCloseStep == last'.op = "close" /\ ~last'.clean

\* The step is a clean close with this code class handled by onclose.
CleanCloseStep(codes) == last'.op = "close" /\ last'.clean /\ last'.code \in codes

\* ---------------------------------------------------------------------- C1
AtMostOneLive == Cardinality(Live) <= 1

\* connect() called by the caller or by a firing reconnect timer while the
\* current handle is live, or by the 302 branch while a handle other than the
\* one just closed is live.
RefusedConnectStep ==
  /\ (last'.op \in {"connect", "timer"} /\ Busy)
       => /\ ~last'.created /\ ~last'.scheduled /\ last'.log = "busy"
          /\ UNCHANGED <<ws, sockets, reconnectCount, currentWsServer,
                         reconnectTimerId>>
          /\ IF last'.op = "timer"
               THEN \E id \in timers : timers' = timers \ {id}
               ELSE timers' = timers
  /\ (CleanCloseStep({302}) /\ Busy /\ ws # last'.h)
       => ~last'.created /\ ~last'.scheduled /\ ws' = ws
          /\ UNCHANGED <<reconnectCount, reconnectTimerId, timers>>

\* A handle is created only when there was none or the current one is closed
\* (in onclose: the current one is the handle whose close is being handled).
CreatedOnlyWhenClosed ==
  last'.created =>
    /\ ws' # ws
    /\ \/ ws = NULL
       \/ sockets[ws].readyState = CLOSED
       \/ last'.op = "close" /\ last'.h = ws

\* C1: at most one handle is connecting, open or closing in every reachable
\* state; connect() called while the current handle is in one of these phases
\* creates no transport, schedules no timer and leaves ws, reconnectCount,
\* currentWsServer and the reconnect timer unchanged; a handle is created only
\* when there is none or the current one is closed.
C1_SingleLiveHandle ==
  [](AtMostOneLive) /\ [][RefusedConnectStep /\ CreatedOnlyWhenClosed]_vars

\* A reconnect timer fired while a handle was live and connect() was refused.
C1_Witness == last.op = "timer" /\ last.log = "busy" /\ Busy

\* ---------------------------------------------------------------------- C2
\* C2: after a clean close with 400 < code < 500 and a sink registered, one
\* error payload is queued for delayed delivery and none is delivered inside
\* the close handler, and no transport is created and no reconnect timer is
\* scheduled until the caller calls connect().
C2_AuthCloseIsTerminal ==
  /\ (last.op = "close" /\ last.clean /\ isAuthError(last.code) /\ onMessage)
       => /\ last.errQueued /\ last.sunk = <<>>
          /\ errTimers # <<>>
          /\ errTimers[Len(errTimers)] = [errorCode |-> last.code, reason |-> last.reason]
  /\ idleSince = "auth" => ~last.created /\ ~last.scheduled /\ ~Busy

\* ---------------------------------------------------------------------- C3
\* C3 as stated: after a clean close with code 302 and reason R, whatever R is,
\* currentWsServer is R and a new transport to R exists, created inside the
\* close handler, with no reconnect timer scheduled or cancelled.
C3_RedirectAlwaysDials ==
  (last.op = "close" /\ last.clean /\ last.code = 302)
    => /\ currentWsServer = last.reason
       /\ last.created /\ ~last.scheduled /\ ~last.cancelled
       /\ ws # NULL /\ sockets[ws].url = last.reason
       /\ sockets[ws].readyState = CONNECTING

\* C3 amended: a clean close with code 302 and reason R sets currentWsServer to
\* R and leaves reconnectCount and the reconnect timer alone; when R is a URL
\* the WebSocket constructor accepts, a new transport to R is created inside
\* the close handler; when R is empty (connect() aborts) or not such a URL
\* (the constructor throws) no transport is created and this.ws keeps
\* referencing the closed handle.
C3_RedirectDialsValidUrl ==
  [][CleanCloseStep({302}) =>
       /\ currentWsServer' = last'.reason
       /\ UNCHANGED <<reconnectCount, reconnectTimerId, timers>>
       /\ ~last'.scheduled /\ ~last'.cancelled
       /\ IF isUrl(last'.reason)
            THEN /\ last'.created /\ ~last'.threw
                 /\ ws' # ws /\ ws' # NULL
                 /\ sockets'[ws'].url = last'.reason
                 /\ sockets'[ws'].readyState = CONNECTING
                 /\ Cardinality({h \in DOMAIN sockets' : sockets'[h].readyState # CLOSED}) = 1
            ELSE /\ ~last'.created
                 /\ ws' = ws
                 /\ sockets'[ws'].readyState = CLOSED
                 /\ last'.threw = (last'.reason # "")
                 /\ last'.log = IF last'.reason = "" THEN "server" ELSE "creation"]_vars

\* A 302 close redirected the manager to the failover address and the new
\* transport to it exists.
C3_Witness ==
  /\ last.op = "close" /\ last.clean /\ last.code = 302
  /\ last.reason = Failover /\ last.created
  /\ currentWsServer = Failover /\ sockets[ws].url = Failover

\* ---------------------------------------------------------------------- C4
\* The delay schedule of the specification, by the count k after the increment.
ScheduleDelay(k, offPrimary) ==
  IF k > 5 /\ offPrimary THEN 1000
  ELSE IF k <= 5 THEN 1000
  ELSE IF k <= 10 THEN 5000
  ELSE IF k <= 20 THEN 7000
  ELSE 10000

\* C4: the k-th consecutive dirty close with no intervening open chooses the
\* delay 1000 for k <= 5, 5000 for 5 < k <= 10, 7000 for 10 < k <= 20 and 10000
\* for k > 20, except 1000 when k > 5 and currentWsServer differs from wsServer
\* at that close; along a run with no open and no redirect in between the
\* delay never decreases.
C4_DelaySchedule ==
  [][DirtyCloseStep =>
       /\ dirtySinceOpen' = reconnectCount'
       /\ last'.scheduled
       /\ last'.retry = ScheduleDelay(dirtySinceOpen', currentWsServer # wsServer)
       /\ last'.retry >= runDelay]_vars

\* A dirty close beyond the 20th chose the longest delay.
C4_Witness ==
  last.op = "close" /\ ~last.clean /\ reconnectCount > 20 /\ last.retry = 10000

\* ---------------------------------------------------------------------- C5
\* C5: a dirty close sets currentWsServer to wsServer exactly when the
\* incremented reconnectCount exceeds 5 and currentWsServer differs from
\* wsServer, and leaves it unchanged otherwise; so off the primary server the
\* 1st to 5th consecutive dirty closes keep the failover address and the 6th
\* goes back to the primary server with delay 1000.
C5_ServerFallback ==
  [][DirtyCloseStep =>
       /\ currentWsServer' =
            IF reconnectCount' > 5 /\ currentWsServer # wsServer
              THEN wsServer ELSE currentWsServer
       /\ (currentWsServer # wsServer /\ reconnectCount' <= 5)
            => currentWsServer' = currentWsServer /\ last'.scheduled
       /\ (currentWsServer # wsServer /\ reconnectCount' > 5)
            => /\ reconnectCount' = 6
               /\ currentWsServer' = wsServer
               /\ last'.retry = 1000 /\ last'.scheduled]_vars

\* The 6th consecutive dirty close after a redirect went back to the primary
\* server with delay 1000.
C5_Witness ==
  /\ last.op = "close" /\ ~last.clean /\ reconnectCount = 6
  /\ last.retry = 1000 /\ currentWsServer = wsServer

\* ---------------------------------------------------------------------- C6
\* C6: reconnectCount equals the number of dirty closes handled since the most
\* recent open event; every open sets it to 0, every dirty close adds 1 and no
\* other handler changes it.
C6_RetryCountIsDirtyRun ==
  /\ [](reconnectCount = dirtySinceOpen)
  /\ [][/\ last'.op = "open" => reconnectCount' = 0
        /\ DirtyCloseStep => reconnectCount' = reconnectCount + 1
        /\ (last'.op # "open" /\ ~DirtyCloseStep) => reconnectCount' = reconnectCount]_vars

\* An open event reset a counter that more than 5 dirty closes had raised.
C6_Witness == last.op = "open" /\ last.before > 5 /\ reconnectCount = 0

\* ---------------------------------------------------------------------- C7
AtMostOneTimer ==
  /\ Cardinality(timers) <= 1
  /\ timers \subseteq {reconnectTimerId}
  /\ (last.op = "close" /\ ~last.clean)
       => last.scheduled /\ reconnectTimerId # NULL /\ timers = {reconnectTimerId}

\* C7: at most one reconnect timer is pending in every reachable state, and it
\* is the one reconnectTimerId names; a dirty close leaves exactly the timer it
\* scheduled pending, the earlier one cancelled, so the timer that fires is
\* always the one scheduled last.
C7_OnePendingTimer ==
  /\ [](AtMostOneTimer)
  /\ [][/\ DirtyCloseStep => reconnectTimerId' \notin timers /\ timers' = {reconnectTimerId'}
        /\ last'.op = "timer" => timers = {reconnectTimerId} /\ timers' = {}]_vars

\* A dirty close cancelled a timer that was still pending.
C7_Witness == last.op = "close" /\ ~last.clean /\ last.cancelled

\* ---------------------------------------------------------------------- C8
\* C8: send() raises nothing to the caller; it transmits exactly one frame
\* when the handle is open and nothing otherwise (no handle, connecting,
\* closing or closed).
C8_SendNeverRaises ==
  last.op = "send" =>
    /\ ~last.threw
    /\ last.frames = IF ws # NULL /\ sockets[ws].readyState = OPEN THEN 1 ELSE 0

\* ---------------------------------------------------------------------- C9
\* C9: a clean close whose code is neither 302 nor strictly between 400 and
\* 500 creates no transport, schedules no timer and queues or delivers no
\* error payload, and the manager stays without a live handle until the
\* caller calls connect().
C9_OtherCleanCloseIsIdle ==
  /\ (last.op = "close" /\ last.clean /\ last.code # 302 /\ ~isAuthError(last.code))
       => ~last.created /\ ~last.scheduled /\ ~last.errQueued /\ last.sunk = <<>>
  /\ idleSince = "other" => ~last.created /\ ~last.scheduled /\ ~Busy

\* --------------------------------------------------------------------- C10
\* C10: connect() with an empty userToken, or with a userToken and an empty
\* currentWsServer, creates no socket, schedules no timer, throws nothing and
\* leaves ws, reconnectCount, currentWsServer and the reconnect timer
\* unchanged; the token is checked first, and both before the readyState
\* guard.
C10_ConfigErrorAborts ==
  [][(last'.op \in {"connect", "timer"} /\ (userToken = "" \/ currentWsServer = ""))
       => /\ last'.log = IF userToken = "" THEN "token" ELSE "server"
          /\ ~last'.created /\ ~last'.scheduled /\ ~last'.threw
          /\ UNCHANGED <<ws, sockets, reconnectCount, currentWsServer,
                         reconnectTimerId, errTimers>>
          /\ last'.op = "connect" => UNCHANGED timers]_vars

\* connect() was refused for the token with the server empty as well.
C10_Witness ==
  last.op = "connect" /\ last.log = "token" /\ userToken = "" /\ currentWsServer = ""

TimerPendingWhileAwaiting ==
  awaitingReconnect =>
    /\ ~Busy
    /\ Cardinality(timers) = 1 /\ timers = {reconnectTimerId}
    /\ userToken # "" /\ isUrl(currentWsServer)

\* What connect() invoked by a firing reconnect timer does.
TimerConnectStep ==
  last'.op = "timer" =>
    \/ /\ last'.created /\ ~Busy
       /\ sockets'[ws'].url = currentWsServer
       /\ sockets'[ws'].readyState = CONNECTING
    \/ /\ last'.log = "busy" /\ Busy /\ ~awaitingReconnect
       /\ UNCHANGED <<ws, sockets>>
    \/ /\ ~isUrl(currentWsServer) /\ ~awaitingReconnect /\ ~Busy
       /\ ~last'.created
       /\ UNCHANGED <<ws, sockets>>

DisconnectStep ==
  last'.op = "disconnect" =>
    /\ UNCHANGED <<ws, reconnectCount, currentWsServer, reconnectTimerId,
                   timers, errTimers>>
    /\ ~last'.created /\ ~last'.scheduled /\ ~last'.cancelled /\ ~last'.threw
    /\ DOMAIN sockets' = DOMAIN sockets
    /\ \A h \in DOMAIN sockets :
         /\ sockets'[h].readyState =
              IF h = ws /\ sockets[h].readyState \in {CONNECTING, OPEN}
                THEN CLOSING ELSE sockets[h].readyState
         /\ sockets'[h].sent = sockets[h].sent
         /\ sockets'[h].url = sockets[h].url

\* C12 as stated: a reconnect timer that was pending when disconnect() was
\* called fires into connect(), which creates a new transport whenever the
\* handle is closed by then.
C12_DisconnectedTimerReconnects ==
  (last.op = "timer" /\ last.afterDisconnect /\ last.log # "busy") => last.created

\* C12 amended: disconnect() requests a close on the current handle when one
\* exists and does nothing when none exists, and leaves ws, reconnectCount,
\* currentWsServer and the reconnect timer unchanged. A reconnect timer pending
\* when disconnect() is called stays pending; it fires, unless a later dirty
\* close replaces it by a new timer, and calls connect(), which creates a new
\* transport if the handle is closed by then and currentWsServer is still a
\* URL the WebSocket constructor accepts (a 302 close handled in between may
\* have left it empty or invalid, and then nothing is created).
C12_DisconnectKeepsTimer ==
  /\ [][DisconnectStep]_vars
  /\ [](survivedDisconnect => timers # {} /\ timers = {reconnectTimerId})
  /\ []((last.op = "timer" /\ last.afterDisconnect)
         => (last.created <=> (last.log # "busy" /\ isUrl(currentWsServer))))
  /\ (survivedDisconnect ~> ~survivedDisconnect)

\* disconnect() closed an open handle while a reconnect timer was pending; the
\* close completed and the timer then fired and created a new transport.
C12_Witness ==
  /\ last.op = "timer" /\ last.afterDisconnect /\ last.created
  /\ idleSince = "other"

\* --------------------------------------------------------------------- C13
\* The text of a frame with tag auth, the configured token and the device.
AuthText ==
  "{\"e\": \"auth\", \"userToken\":\"" \o userToken
    \o "\", \"device\":\"" \o device \o "\"}"

\* The frames send() can hand to the transport for the caller.
CallerFrames == {wire(m) : m \in Messages}

\* C13: every open event of a handle sends exactly one authentication frame
\* (tag auth, the configured userToken and device) on that handle, and it is
\* the first frame transmitted on the handle: no caller frame is transmitted on
\* a handle before its authentication frame, and no authentication frame is
\* sent on a handle that has not opened.
C13_AuthFrameFirst ==
  /\ \A h \in DOMAIN sockets :
       IF sockets[h].established
         THEN /\ Len(sockets[h].sent) >= 1
              /\ sockets[h].sent[1] = AuthText
              /\ \A i \in 2..Len(sockets[h].sent) :
                   sockets[h].sent[i] \in CallerFrames \ {AuthText}
         ELSE sockets[h].sent = <<>>
  /\ last.op = "open" =>
       /\ last.h = ws /\ last.frames = 1 /\ ~last.threw
       /\ sockets[ws].sent = <<AuthText>>
  /\ (last.op = "send" /\ last.frames = 1) =>
       /\ sockets[ws].established
       /\ Len(sockets[ws].sent) >= 2

\* A caller frame was transmitted on an opened handle, after the handle's
\* authentication frame.
C13_Witness ==
  /\ last.op = "send" /\ last.frames = 1
  /\ Len(sockets[ws].sent) = 2
  /\ sockets[ws].sent[1] = AuthText
  /\ sockets[ws].sent[2] \in CallerFrames

\* --------------------------------------------------------------------- C14
\* The steps that process a transport event of handle last'.h.
TransportEvents == {"open", "message", "error", "close"}

\* A step that replaces the handle finds the previous one closed (or closes
\* it in the same close handler) and leaves no other handle alive.
ReplaceStep ==
  ws' # ws =>
    /\ ws' \notin DOMAIN sockets
    /\ \/ ws = NULL
       \/ sockets[ws].readyState = CLOSED
       \/ last'.op = "close" /\ last'.h = ws
    /\ sockets'[ws'].readyState = CONNECTING
    /\ ~sockets'[ws'].established
    /\ \A h \in DOMAIN sockets' \ {ws'} : sockets'[h].readyState = CLOSED

\* The order of the events of one handle, and whose events are processed.
EventStep ==
  last'.op \in TransportEvents =>
    /\ last'.h = ws
    /\ \A h \in DOMAIN sockets \ {ws} : sockets[h].readyState = CLOSED
    /\ last'.op = "open" =>
         /\ sockets[ws].readyState = CONNECTING /\ ~sockets[ws].established
         /\ sockets'[ws].readyState = OPEN /\ sockets'[ws].established
    /\ last'.op = "message" =>
         /\ sockets[ws].readyState = OPEN /\ sockets[ws].established
         /\ sockets' = sockets
    /\ last'.op = "close" =>
         /\ sockets[ws].readyState # CLOSED
         /\ ws \in DOMAIN sockets' => sockets'[ws].readyState = CLOSED

\* C14: the handle is replaced only when the previous handle is closed, so the
\* events the manager processes for a handle are at most one open, then
\* messages, then at most one close, and once a newer handle exists no open,
\* message, error or close event of an older handle is processed.
C14_OneEventSequencePerHandle ==
  /\ [][ReplaceStep]_vars
  /\ [][EventStep]_vars
  /\ [](\A h \in DOMAIN sockets :
          sockets[h].readyState = OPEN \/ sockets[h].sent # <<>>
            => sockets[h].established)

\* A message event of the current handle is processed after the handle of an
\* earlier connection was closed dirty and replaced.
C14_Witness ==
  /\ last.op = "message" /\ last.h = ws
  /\ reconnectTimerId # NULL
  /\ DOMAIN sockets = {ws}

\* --------------------------------------------------------------------- C15
\* The inbound texts that are JSON, with the value each one denotes.
JsonValue == [t \in {"{\"e\":\"chat\"}"} |-> [e |-> "chat"]]

\* What a message step does with msg.data.
MessageStep ==
  last'.op = "message" =>
    /\ last'.sunk = IF last'.data \in DOMAIN JsonValue /\ onMessage
                      THEN <<JsonValue[last'.data]>> ELSE <<>>
    /\ ~last'.threw /\ ~last'.created /\ ~last'.scheduled /\ ~last'.errQueued
    /\ UNCHANGED <<ws, sockets, reconnectCount, currentWsServer,
                   reconnectTimerId, timers, errTimers>>
    /\ sockets'[ws].readyState = OPEN

\* C15: with a sink registered, an inbound message that parses produces exactly
\* one sink call carrying the parsed payload, within the message handler (so
\* in arrival order); one that fails to parse produces no sink call and raises
\* no error; in both cases ws, reconnectCount, currentWsServer and the pending
\* reconnect timer are unchanged and the connection stays open.
C15_OneSinkCallPerMessage ==
  /\ [][MessageStep]_vars
  /\ [](last.op = "message" =>
          /\ Len(last.sunk) <= 1
          /\ Len(last.sunk) = 1 <=> (onMessage /\ last.data # "not json")
          /\ sockets[ws].readyState = OPEN)

\* A message that does not parse was discarded with a sink registered, while a
\* reconnect timer of an earlier dirty close was pending.
C15_Witness ==
  /\ last.op = "message" /\ last.data = "not json" /\ last.sunk = <<>>
  /\ onMessage /\ timers # {}

\* --------------------------------------------------------------------- C16
\* What an error step leaves alone.
ErrorStep ==
  last'.op = "error" =>
    /\ UNCHANGED <<ws, sockets, reconnectCount, currentWsServer,
                   reconnectTimerId, timers, errTimers>>
    /\ ~last'.created /\ ~last'.scheduled /\ ~last'.cancelled
    /\ ~last'.errQueued /\ last'.sunk = <<>> /\ last'.frames = 0

\* The steps that create a transport or schedule a reconnect timer.
RecoveryStep ==
  last'.created \/ last'.scheduled \/ reconnectCount' # reconnectCount
    => last'.op \in {"close", "connect", "timer", "open"}

\* C16: a transport error event causes no state transition: it leaves ws,
\* reconnectCount, currentWsServer and the pending reconnect timer unchanged,
\* creates no transport, schedules no timer and delivers nothing to the sink;
\* recovery happens only in the close event that follows.
C16_ErrorIsLoggedOnly ==
  /\ [][ErrorStep]_vars
  /\ [][RecoveryStep]_vars
  /\ [](last.op = "error" => last.log = "error" /\ last.h = ws /\ Busy)

\* An error event was processed on a connecting handle after a dirty close:
\* the retry count and the pending timer are those of the dirty close.
C16_Witness ==
  /\ last.op = "error" /\ Busy
  /\ sockets[ws].readyState = CONNECTING
  /\ reconnectCount = 1 /\ timers = {reconnectTimerId}

\* --------------------------------------------------------------------- C17
\* C17: between event handlers, reconnectCount > 5 implies that currentWsServer
\* is wsServer: an address adopted from a 302 close is dialed only at retry
\* counts 0 to 5 and is never the target of an attempt once more than 5
\* consecutive dirty closes have accumulated.
C17_RedirectOnlyEarly ==
  /\ reconnectCount > 5 => currentWsServer = wsServer
  /\ \A h \in DOMAIN sockets :
       (sockets[h].readyState = CONNECTING /\ sockets[h].url # wsServer)
         => reconnectCount <= 5
  /\ (last.created /\ reconnectCount > 5) => sockets[ws].url = wsServer

\* The sixth dirty close in a row found a redirect address (its delay was the
\* 1000 ms of the fallback) and the reconnect timer then dialed wsServer.
C17_Witness ==
  /\ last.op = "timer" /\ last.created
  /\ reconnectCount = 6 /\ runDelay = 1000
  /\ sockets[ws].url = wsServer /\ currentWsServer = wsServer

\* --------------------------------------------------------------------- C18
\* The configuration the claim is about, with a primary server that can be
\* dialed.
ValidConfig == userToken # "" /\ isUrl(wsServer)

\* No handle is live and currentWsServer cannot be dialed.
Wedged == ~Busy /\ ~isUrl(currentWsServer)

\* C18 as stated: with a non-empty token and primary server, currentWsServer is
\* never empty and connect() called with no live handle always creates a
\* transport.
C18_ServerNeverEmpty ==
  ValidConfig =>
    /\ currentWsServer # ""
    /\ (last.op = "connect" /\ last.log # "busy") => last.created

\* The only steps that change currentWsServer.
ServerChangeStep ==
  /\ currentWsServer' # currentWsServer =>
       \/ CleanCloseStep({302}) /\ currentWsServer' = last'.reason
       \/ DirtyCloseStep /\ reconnectCount' > 5 /\ currentWsServer' = wsServer
  /\ CleanCloseStep({302}) => currentWsServer' = last'.reason

\* connect(), called by the caller or by a reconnect timer with no live
\* handle, creates a transport exactly when currentWsServer can be dialed.
IdleConnectStep ==
  (last'.op \in {"connect", "timer"} /\ userToken # "" /\ ~Busy) =>
    /\ last'.created <=> isUrl(currentWsServer)
    /\ last'.created => sockets'[ws'].url = currentWsServer

\* C18 amended: with a non-empty token and a primary server the transport
\* accepts, currentWsServer changes only in the close handler: a 302 clean
\* close sets it to the close reason, whatever that is, and a dirty close with
\* reconnectCount > 5 sets it back to wsServer; so it is empty exactly after a
\* 302 close with an empty reason. connect() called with no handle or a closed
\* one creates a transport if and only if currentWsServer is an address the
\* transport accepts; once it is not and no handle is live, no caller
\* operation or transport event creates a transport again.
C18_DialsWhileServerValid ==
  /\ [][ServerChangeStep]_vars
  /\ [][IdleConnectStep]_vars
  /\ [][Wedged => Wedged' /\ ~last'.created]_vars
  /\ [](ValidConfig =>
          /\ currentWsServer \in {wsServer} \cup Reasons
          /\ ~isUrl(currentWsServer) =>
               /\ ~Busy /\ ws # NULL /\ sockets[ws].established
               /\ reconnectCount = 0)

\* With a valid configuration a 302 close with an empty reason emptied
\* currentWsServer, and a later connect() of the caller was refused for it.
C18_Witness ==
  /\ ValidConfig /\ Wedged /\ currentWsServer = ""
  /\ last.op = "connect" /\ last.log = "server" /\ ~last.created

====
